---- MODULE Spec2Model ----
(***************************************************************************)
(* State-machine model of SOME/inference/base_infer.py: the constructor of *)
(* BaseInference (device choice, derived timestep, build_model with its    *)
(* three checkpoint shapes and the strict load_state_dict) and the driving *)
(* loop infer (preprocess -> forward_model -> postprocess per waveform).   *)
(***************************************************************************)
EXTENDS Integers, Sequences, FiniteSets, TLC

(* ---------------------------- bounds ----------------------------------- *)

\* longest waveform list handed to one infer call
MaxWaveforms == 2
\* number of infer calls made on one pipeline object
MaxCalls == 2

(* ---------------------------- input domains ---------------------------- *)

Tensors == {"W", "Y"}
Waveforms == {"w1", "w2"}
Paths == {"ckpt/a.pt", "ckpt/b.pt"}
DeviceArgs == {"None", "cpu"}
Stages == {"preprocess", "forward_model", "postprocess"}

\* the stages a class of pipeline overrides; {} is BaseInference itself
Variants == {{}, {"preprocess"}, {"preprocess", "forward_model"}, Stages}

Configs ==
  { [hop_size |-> 512, audio_sample_rate |-> 44100, model_cls |-> "ModelA"],
    [hop_size |-> 256, audio_sample_rate |-> 44100, model_cls |-> "ModelB"],
    [hop_size |-> 512, audio_sample_rate |-> 0, model_cls |-> "ModelA"] }

(* ---------------------------- python values ---------------------------- *)

\* A deserialized value: a dict (isMap, entries) or anything else (val).
Tensor(t) == [isMap |-> FALSE, val |-> t, entries |-> <<>>]
Dict(f) == [isMap |-> TRUE, val |-> "dict", entries |-> f]
NoValue == Tensor("unset")
NoDict == <<>>

TensorValues == {Tensor(t) : t \in Tensors}

\* all dicts with keys among ks and values among vs
Maps(ks, vs) == UNION {[S -> vs] : S \in SUBSET ks}

\* keys met under a 'state_dict' wrapper and under a 'model' wrapper
StateDictKeys == {"model.a", "model.model", "other.x", "modelx.a"}
ModelKeys == {"a", "model.a"}
TopKeys == {"state_dict", "model", "a"}

DictsOver(ks) == {Dict(f) : f \in Maps(ks, TensorValues)}

\* a wrapper key may hold a dict or something that is no dict
AllowedAt(k) ==
  IF k = "state_dict" THEN DictsOver(StateDictKeys) \cup TensorValues
  ELSE IF k = "model" THEN DictsOver(ModelKeys) \cup TensorValues
  ELSE TensorValues

AllValues == UNION {AllowedAt(k) : k \in TopKeys}

\* what torch.load can hand back: a dict, or an object that is no dict
Artifacts ==
  {Dict(f) : f \in UNION {{g \in [S -> AllValues] : \A k \in S : g[k] \in AllowedAt(k)}
                              : S \in SUBSET TopKeys}}
  \cup TensorValues

(* ---------------------------- str operations --------------------------- *)

\* k.startswith(p)
StartsWith(k, p) == Len(k) >= Len(p) /\ SubSeq(k, 1, Len(p)) = p
\* k[n:]
SliceFrom(k, n) == SubSeq(k, n + 1, Len(k))

(* ---------------------------- errors ----------------------------------- *)

Error(type, msg, path, missing, unexpected) ==
  [type |-> type, msg |-> msg, path |-> path, missing |-> missing, unexpected |-> unexpected]
NoError == Error("none", "", "", {}, {})
UnsupportedFormat(path) == Error("RuntimeError", "Unsupported checkpoint format at", path, {}, {})
AttributeErr == Error("AttributeError", "object has no attribute 'items'", "", {}, {})
KeyMismatch(missing, unexpected) ==
  Error("RuntimeError", "Error(s) in loading state_dict", "", missing, unexpected)
ZeroDivision == Error("ZeroDivisionError", "division by zero", "", {}, {})
LoadFailure == Error("OSError", "cannot read checkpoint", "", {}, {})
NotImplemented == Error("NotImplementedError", "", "", {}, {})
StageFailure == Error("StageError", "", "", {}, {})

(* ---------------------------- constructor helpers ---------------------- *)

RECURSIVE Gcd(_, _)
Gcd(a, b) == IF b = 0 THEN a ELSE Gcd(b, a % b)

\* the operands of the division exchanged
TimeStepSwapped(hop, rate) == <<rate \div Gcd(rate, hop), hop \div Gcd(rate, hop)>>

\* hop_size / audio_sample_rate as an exact fraction in lowest terms
TimeStep(hop, rate) == <<hop \div Gcd(hop, rate), rate \div Gcd(hop, rate)>>

\* device = 'cuda' if torch.cuda.is_available() else 'cpu', when device is None
ResolveDevice(device, cuda_available) ==
  IF device = "None" THEN (IF cuda_available THEN "cuda" ELSE "cpu") ELSE device

\* parameter names the architecture named by config['model_cls'] declares
DeclaredKeys(cls) == IF cls = "ModelA" THEN {"a"} ELSE {"a", "model"}

\* build_object_from_class_name(...).eval().to(device): freshly initialised
BuildObject(cfg, device) ==
  [cls |-> cfg.model_cls, training |-> FALSE, device |-> device,
   params |-> [k \in DeclaredKeys(cfg.model_cls) |-> Tensor("init")]]

(* ---------------------------- checkpoint shapes ------------------------ *)

IsDict(v) == v.isMap
Has(v, k) == k \in DOMAIN v.entries

prefix_in_ckpt == "model"

\* the slice taken at len(prefix): the '.' stays on every key
StripPrefixKeepsDot(sd) ==
  LET kept == {k \in DOMAIN sd : StartsWith(k, prefix_in_ckpt \o ".")}
      short(k) == SliceFrom(k, Len(prefix_in_ckpt))
  IN [s \in {short(k) : k \in kept} |-> sd[CHOOSE k \in kept : short(k) = s]]

\* {k[len(prefix)+1:]: v for k, v in state_dict.items() if k.startswith(prefix + '.')}
StripPrefix(sd) ==
  LET kept == {k \in DOMAIN sd : StartsWith(k, prefix_in_ckpt \o ".")}
      short(k) == SliceFrom(k, Len(prefix_in_ckpt) + 1)
  IN [s \in {short(k) : k \in kept} |-> sd[CHOOSE k \in kept : short(k) = s]]

\* the 'model' wrapper tested before the 'state_dict' wrapper
BranchModelFirst(ckpt) ==
  IF IsDict(ckpt) /\ Has(ckpt, "model") /\ IsDict(ckpt.entries["model"]) THEN "model"
  ELSE IF IsDict(ckpt) /\ Has(ckpt, "state_dict") THEN "state_dict"
  ELSE IF IsDict(ckpt) THEN "raw"
  ELSE "unsupported"

\* a 'model' key that holds no dict rejected instead of falling through
BranchRejectsBadModel(ckpt) ==
  IF IsDict(ckpt) /\ Has(ckpt, "state_dict") THEN "state_dict"
  ELSE IF IsDict(ckpt) /\ Has(ckpt, "model") /\ IsDict(ckpt.entries["model"]) THEN "model"
  ELSE IF IsDict(ckpt) /\ ~Has(ckpt, "model") THEN "raw"
  ELSE "unsupported"

\* which arm of the if/elif chain of build_model is taken
Branch(ckpt) ==
  IF IsDict(ckpt) /\ Has(ckpt, "state_dict") THEN "state_dict"
  ELSE IF IsDict(ckpt) /\ Has(ckpt, "model") /\ IsDict(ckpt.entries["model"]) THEN "model"
  ELSE IF IsDict(ckpt) THEN "raw"
  ELSE "unsupported"

\* missing / unexpected keys of load_state_dict(state_dict, strict=True)
MissingKeys(model, sd) == DOMAIN model.params \ DOMAIN sd
UnexpectedKeys(model, sd) == DOMAIN sd \ DOMAIN model.params

(* ---------------------------- state ------------------------------------ *)

VARIABLES
  pc,         \* position of the single calling thread
  self,       \* attributes of the pipeline object set so far (+ its class)
  model,      \* build_model local: the module being built
  ckpt,       \* build_model local: the deserialized checkpoint
  branch,     \* which arm of build_model classified ckpt
  state_dict, \* build_model local: the extracted parameter mapping
  error,      \* exception that left the latest top-level call, if any
  waveforms,  \* argument of the latest infer call
  i,          \* position of the for loop in waveforms
  results,    \* infer local
  model_in,   \* infer local
  model_out,  \* infer local
  trace,      \* stage invocations of the latest infer call: <<stage, item, ok>>
  ret,        \* what the latest infer call returned
  calls       \* infer calls made so far

vars == <<pc, self, model, ckpt, branch, state_dict, error, waveforms, i,
          results, model_in, model_out, trace, ret, calls>>

ctorLocals == <<model, ckpt, branch, state_dict>>
inferVars == <<waveforms, i, results, model_in, model_out, trace, ret, calls>>

NoModel == [cls |-> "", training |-> TRUE, device |-> "", params |-> <<>>]
NoRet == [returned |-> FALSE, value |-> <<>>]

Init ==
  /\ pc = "__init__"
  /\ self \in {[overrides |-> v] : v \in Variants}
  /\ model = NoModel
  /\ ckpt = NoValue
  /\ branch = "none"
  /\ state_dict = NoDict
  /\ error = NoError
  /\ waveforms = <<>>
  /\ i = 0
  /\ results = <<>>
  /\ model_in = <<>>
  /\ model_out = <<>>
  /\ trace = <<>>
  /\ ret = NoRet
  /\ calls = 0

(* ---------------------------- __init__ --------------------------------- *)

\* lines 15-20: device, config, model_path, timestep
InitFields ==
  /\ pc = "__init__"
  /\ \E config \in Configs, model_path \in Paths, device \in DeviceArgs,
        cuda_available \in BOOLEAN :
       /\ config.audio_sample_rate # 0
       /\ self' = self @@ [config |-> config, model_path |-> model_path,
                           device |-> ResolveDevice(device, cuda_available),
                           timestep |-> TimeStep(config.hop_size, config.audio_sample_rate)]
  /\ pc' = "build_model"
  /\ UNCHANGED <<ctorLocals, error, inferVars>>

\* line 20 raising: audio_sample_rate is 0
InitZeroDivision ==
  /\ pc = "__init__"
  /\ \E config \in Configs, model_path \in Paths, device \in DeviceArgs,
        cuda_available \in BOOLEAN :
       /\ config.audio_sample_rate = 0
       /\ self' = self @@ [config |-> config, model_path |-> model_path,
                           device |-> ResolveDevice(device, cuda_available)]
  /\ error' = ZeroDivision
  /\ pc' = "ctor_failed"
  /\ UNCHANGED <<ctorLocals, inferVars>>

(* ---------------------------- build_model ------------------------------ *)

\* lines 24-26
BuildModelObject ==
  /\ pc = "build_model"
  /\ model' = BuildObject(self.config, self.device)
  /\ pc' = "torch_load"
  /\ UNCHANGED <<self, ckpt, branch, state_dict, error, inferVars>>

\* line 27
TorchLoad ==
  /\ pc = "torch_load"
  /\ ckpt' \in Artifacts
  /\ pc' = "classify"
  /\ UNCHANGED <<self, model, branch, state_dict, error, inferVars>>

\* line 27 raising: the file cannot be read or deserialized
TorchLoadFails ==
  /\ pc = "torch_load"
  /\ error' = LoadFailure
  /\ pc' = "ctor_failed"
  /\ UNCHANGED <<self, ctorLocals, inferVars>>

\* lines 28-34
ClassifyStateDict ==
  /\ pc = "classify"
  /\ Branch(ckpt) = "state_dict"
  /\ branch' = "state_dict"
  /\ IF IsDict(ckpt.entries["state_dict"])
       THEN /\ state_dict' = StripPrefix(ckpt.entries["state_dict"].entries)
            /\ pc' = "load_state_dict"
            /\ UNCHANGED error
       ELSE /\ error' = AttributeErr
            /\ pc' = "ctor_failed"
            /\ UNCHANGED state_dict
  /\ UNCHANGED <<self, model, ckpt, inferVars>>

\* lines 35-37
ClassifyModel ==
  /\ pc = "classify"
  /\ Branch(ckpt) = "model"
  /\ branch' = "model"
  /\ state_dict' = ckpt.entries["model"].entries
  /\ pc' = "load_state_dict"
  /\ UNCHANGED <<self, model, ckpt, error, inferVars>>

\* lines 38-40
ClassifyRaw ==
  /\ pc = "classify"
  /\ Branch(ckpt) = "raw"
  /\ branch' = "raw"
  /\ state_dict' = ckpt.entries
  /\ pc' = "load_state_dict"
  /\ UNCHANGED <<self, model, ckpt, error, inferVars>>

\* lines 41-42
ClassifyUnsupported ==
  /\ pc = "classify"
  /\ Branch(ckpt) = "unsupported"
  /\ branch' = "unsupported"
  /\ error' = UnsupportedFormat(self.model_path)
  /\ pc' = "ctor_failed"
  /\ UNCHANGED <<self, model, ckpt, state_dict, inferVars>>

\* strict=False: whatever keys match are loaded, the rest is ignored
LoadStateDictLenient ==
  /\ pc = "load_state_dict"
  /\ self' = self @@ [model |-> [model EXCEPT !.params =
                         [k \in DOMAIN model.params |->
                            IF k \in DOMAIN state_dict THEN state_dict[k] ELSE model.params[k]]]]
  /\ model' = NoModel
  /\ ckpt' = NoValue
  /\ state_dict' = NoDict
  /\ branch' = "none"
  /\ pc' = "ready"
  /\ UNCHANGED <<error, inferVars>>

\* lines 43-45 and the assignment of line 21
LoadStateDict ==
  /\ pc = "load_state_dict"
  /\ MissingKeys(model, state_dict) = {}
  /\ UnexpectedKeys(model, state_dict) = {}
  /\ self' = self @@ [model |-> [model EXCEPT !.params = state_dict]]
  /\ model' = NoModel
  /\ ckpt' = NoValue
  /\ state_dict' = NoDict
  /\ branch' = "none"
  /\ pc' = "ready"
  /\ UNCHANGED <<error, inferVars>>

\* line 43 raising under strict=True
LoadStateDictMismatch ==
  /\ pc = "load_state_dict"
  /\ \/ MissingKeys(model, state_dict) # {}
     \/ UnexpectedKeys(model, state_dict) # {}
  /\ error' = KeyMismatch(MissingKeys(model, state_dict), UnexpectedKeys(model, state_dict))
  /\ pc' = "ctor_failed"
  /\ UNCHANGED <<self, ctorLocals, inferVars>>

(* ---------------------------- infer ------------------------------------ *)

WaveformLists == UNION {[1..n -> Waveforms] : n \in 0..MaxWaveforms}

\* what an overriding stage hands on: its input, marked with the stage's name
StageOutput(stage, x) == Append(x, stage)

Invoked(stage, ok) == Append(trace, [stage |-> stage, item |-> i, ok |-> ok])

\* the exception caught around the loop and the results so far returned
PropagateReturnsPartial(e) ==
  /\ error' = e
  /\ pc' = "ready"
  /\ i' = 0
  /\ ret' = [returned |-> TRUE, value |-> results]
  /\ results' = <<>>
  /\ model_in' = <<>>
  /\ model_out' = <<>>
  /\ UNCHANGED <<self, ctorLocals, waveforms, calls>>

\* an exception raised inside the loop leaves infer: nothing catches it
Propagate(e) ==
  /\ error' = e
  /\ pc' = "ready"
  /\ i' = 0
  /\ results' = <<>>
  /\ model_in' = <<>>
  /\ model_out' = <<>>
  /\ UNCHANGED <<self, ctorLocals, waveforms, ret, calls>>

\* an empty list of waveforms refused up front
InferCallRejectsEmpty ==
  /\ pc = "ready"
  /\ calls < MaxCalls
  /\ waveforms' \in WaveformLists
  /\ calls' = calls + 1
  /\ results' = <<>>
  /\ i' = 0
  /\ model_in' = <<>>
  /\ model_out' = <<>>
  /\ trace' = <<>>
  /\ ret' = NoRet
  /\ error' = IF waveforms' = <<>> THEN StageFailure ELSE NoError
  /\ pc' = IF waveforms' = <<>> THEN "ready" ELSE "for"
  /\ UNCHANGED <<self, ctorLocals>>

\* line 57
InferCall ==
  /\ pc = "ready"
  /\ calls < MaxCalls
  /\ waveforms' \in WaveformLists
  /\ calls' = calls + 1
  /\ results' = <<>>
  /\ i' = 0
  /\ model_in' = <<>>
  /\ model_out' = <<>>
  /\ trace' = <<>>
  /\ ret' = NoRet
  /\ error' = NoError
  /\ pc' = "for"
  /\ UNCHANGED <<self, ctorLocals>>

\* line 58: the next waveform
ForNext ==
  /\ pc = "for"
  /\ i < Len(waveforms)
  /\ i' = i + 1
  /\ pc' = "preprocess"
  /\ UNCHANGED <<self, ctorLocals, error, waveforms, results, model_in, model_out,
                 trace, ret, calls>>

\* line 58 exhausted, line 63
InferReturn ==
  /\ pc = "for"
  /\ i = Len(waveforms)
  /\ ret' = [returned |-> TRUE, value |-> results]
  /\ results' = <<>>
  /\ i' = 0
  /\ model_in' = <<>>
  /\ model_out' = <<>>
  /\ pc' = "ready"
  /\ UNCHANGED <<self, ctorLocals, error, waveforms, trace, calls>>

\* line 59 reaching lines 47-48
PreprocessBase ==
  /\ pc = "preprocess"
  /\ "preprocess" \notin self.overrides
  /\ trace' = Invoked("preprocess", FALSE)
  /\ Propagate(NotImplemented)

\* line 59 reaching a subclass's preprocess
PreprocessOverride ==
  /\ pc = "preprocess"
  /\ "preprocess" \in self.overrides
  /\ trace' = Invoked("preprocess", TRUE)
  /\ model_in' = StageOutput("preprocess", <<waveforms[i]>>)
  /\ pc' = "forward_model"
  /\ UNCHANGED <<self, ctorLocals, error, waveforms, i, results, model_out, ret, calls>>

PreprocessOverrideRaises ==
  /\ pc = "preprocess"
  /\ "preprocess" \in self.overrides
  /\ trace' = Invoked("preprocess", FALSE)
  /\ Propagate(StageFailure)

\* a base forward_model that calls self.model on the sample
ForwardModelBaseInvokes ==
  /\ pc = "forward_model"
  /\ "forward_model" \notin self.overrides
  /\ trace' = Invoked("forward_model", TRUE)
  /\ model_out' = StageOutput("forward_model", model_in)
  /\ pc' = "postprocess"
  /\ UNCHANGED <<self, ctorLocals, error, waveforms, i, results, model_in, ret, calls>>

\* line 60 reaching lines 50-51
ForwardModelBase ==
  /\ pc = "forward_model"
  /\ "forward_model" \notin self.overrides
  /\ trace' = Invoked("forward_model", FALSE)
  /\ Propagate(NotImplemented)

\* line 60 reaching a subclass's forward_model
ForwardModelOverride ==
  /\ pc = "forward_model"
  /\ "forward_model" \in self.overrides
  /\ trace' = Invoked("forward_model", TRUE)
  /\ model_out' = StageOutput("forward_model", model_in)
  /\ pc' = "postprocess"
  /\ UNCHANGED <<self, ctorLocals, error, waveforms, i, results, model_in, ret, calls>>

ForwardModelOverrideRaises ==
  /\ pc = "forward_model"
  /\ "forward_model" \in self.overrides
  /\ trace' = Invoked("forward_model", FALSE)
  /\ Propagate(StageFailure)

\* line 61 reaching lines 53-54
PostprocessBase ==
  /\ pc = "postprocess"
  /\ "postprocess" \notin self.overrides
  /\ trace' = Invoked("postprocess", FALSE)
  /\ Propagate(NotImplemented)

\* results.insert(0, res) instead of results.append(res)
PostprocessOverridePrepends ==
  /\ pc = "postprocess"
  /\ "postprocess" \in self.overrides
  /\ trace' = Invoked("postprocess", TRUE)
  /\ results' = <<StageOutput("postprocess", model_out)>> \o results
  /\ pc' = "for"
  /\ UNCHANGED <<self, ctorLocals, error, waveforms, i, model_in, model_out, ret, calls>>

\* lines 61-62 with a subclass's postprocess
PostprocessOverride ==
  /\ pc = "postprocess"
  /\ "postprocess" \in self.overrides
  /\ trace' = Invoked("postprocess", TRUE)
  /\ results' = Append(results, StageOutput("postprocess", model_out))
  /\ pc' = "for"
  /\ UNCHANGED <<self, ctorLocals, error, waveforms, i, model_in, model_out, ret, calls>>

PostprocessOverrideRaises ==
  /\ pc = "postprocess"
  /\ "postprocess" \in self.overrides
  /\ trace' = Invoked("postprocess", FALSE)
  /\ Propagate(StageFailure)

Next ==
  \/ InitFields
  \/ InitZeroDivision
  \/ BuildModelObject
  \/ TorchLoad
  \/ TorchLoadFails
  \/ ClassifyStateDict
  \/ ClassifyModel
  \/ ClassifyRaw
  \/ ClassifyUnsupported
  \/ LoadStateDict
  \/ LoadStateDictMismatch
  \/ InferCall
  \/ ForNext
  \/ InferReturn
  \/ PreprocessBase
  \/ PreprocessOverride
  \/ PreprocessOverrideRaises
  \/ ForwardModelBase
  \/ ForwardModelOverride
  \/ ForwardModelOverrideRaises
  \/ PostprocessBase
  \/ PostprocessOverride
  \/ PostprocessOverrideRaises

Spec == Init /\ [][Next]_vars

(* ======================================================================= *)
(* Properties                                                              *)
(* ======================================================================= *)

\* build_model has extracted state_dict from ckpt and both are still in view
Extracted ==
  /\ branch \in {"state_dict", "model", "raw"}
  /\ error.type # "AttributeError"
  /\ pc \in {"load_state_dict", "ctor_failed"}

HasStateDictKey == IsDict(ckpt) /\ "state_dict" \in DOMAIN ckpt.entries
HasModelDict ==
  /\ IsDict(ckpt)
  /\ "model" \in DOMAIN ckpt.entries
  /\ ckpt.entries["model"].isMap
Declared == DeclaredKeys(self.config.model_cls)

\* C1: a dict checkpoint is classified in the order 'state_dict' wrapper,
\* 'model' wrapper holding a dict, raw mapping, the first match winning: with
\* a 'state_dict' key the prefixed extraction is taken even if a 'model' key
\* is there too, else a 'model' dict is used as it is, else the checkpoint
\* itself; the raw arm is never taken for a checkpoint of the first two shapes.
C1_PriorityOrder ==
  (branch # "none" /\ IsDict(ckpt)) =>
    /\ HasStateDictKey => branch = "state_dict"
    /\ (~HasStateDictKey /\ HasModelDict) =>
         (branch = "model" /\ state_dict = ckpt.entries["model"].entries)
    /\ (~HasStateDictKey /\ ~HasModelDict) =>
         (branch = "raw" /\ state_dict = ckpt.entries)
    /\ branch = "raw" => (~HasStateDictKey /\ ~HasModelDict)
    /\ (branch = "state_dict" /\ Extracted) =>
         \A s \in DOMAIN state_dict :
           ("model." \o s) \in DOMAIN ckpt.entries["state_dict"].entries

\* a checkpoint with both wrappers has been classified as the 'state_dict' shape
C1_Witness ==
  /\ pc = "load_state_dict"
  /\ branch = "state_dict"
  /\ HasModelDict
  /\ DOMAIN ckpt.entries["model"].entries # {}
  /\ DOMAIN state_dict # {}

\* C2: for a 'state_dict' checkpoint the mapping handed to the model has
\* exactly one entry per nested key that starts with 'model.', under that key
\* without the prefix and with the same value; all other nested entries are
\* dropped.
C2_PrefixExtraction ==
  (Extracted /\ branch = "state_dict") =>
    LET sd == ckpt.entries["state_dict"].entries
        prefixed == {k \in DOMAIN sd : StartsWith(k, "model.")}
    IN /\ \A k \in prefixed :
            \E s \in DOMAIN state_dict : k = "model." \o s /\ state_dict[s] = sd[k]
       /\ \A s \in DOMAIN state_dict :
            /\ ("model." \o s) \in prefixed
            /\ state_dict[s] = sd["model." \o s]
       /\ Cardinality(DOMAIN state_dict) = Cardinality(prefixed)

\* {'state_dict': {'model.a': W, 'other.x': Y}} has yielded {'a': W}
C2_Witness ==
  /\ pc = "load_state_dict"
  /\ branch = "state_dict"
  /\ ckpt.entries["state_dict"].entries = ("model.a" :> Tensor("W")) @@ ("other.x" :> Tensor("Y"))
  /\ state_dict = ("a" :> Tensor("W"))

\* an artifact of none of the three shapes, as C3 counts them
NoShape ==
  \/ ~IsDict(ckpt)
  \/ /\ HasStateDictKey
     /\ ~ckpt.entries["state_dict"].isMap
     /\ ~HasModelDict

\* C3: an artifact that matches none of the three shapes (a mapping whose
\* 'state_dict' entry is no mapping included) makes build_model fail with the
\* unsupported-format error that names model_path, and with no other error.
C3_FormatErrorOnly ==
  (branch # "none" /\ NoShape) =>
    (pc = "ctor_failed" /\ error = UnsupportedFormat(self.model_path))

\* C4: when a stage fails on item i, infer ends in failure right there: the
\* failing invocation is the last one of the call, no list is returned and
\* the results collected before i are gone.
C4_AllOrNothing ==
  \A j \in DOMAIN trace :
    ~trace[j].ok =>
      /\ j = Len(trace)
      /\ pc = "ready"
      /\ error.type # "none"
      /\ ret = NoRet
      /\ results = <<>>

\* preprocess failed on the second of two items, after the first went through
C4_Witness ==
  /\ pc = "ready"
  /\ Len(waveforms) = 2
  /\ Len(trace) = 4
  /\ trace[4] = [stage |-> "preprocess", item |-> 2, ok |-> FALSE]
  /\ trace[3].ok

StageOrder == <<"preprocess", "forward_model", "postprocess">>

\* C5: the stages run in the order preprocess, forward_model, postprocess on
\* item 1, then on item 2, ..., an item being finished before the next one
\* starts; when all succeed each stage has run once per item and the list
\* returned has one entry per waveform, entry k being the postprocess result
\* of waveform k.
C5_OrderedResults ==
  /\ \A j \in DOMAIN trace :
       /\ trace[j].item = ((j - 1) \div 3) + 1
       /\ trace[j].stage = StageOrder[((j - 1) % 3) + 1]
  /\ (pc = "ready" /\ ret.returned) =>
       /\ Len(trace) = 3 * Len(waveforms)
       /\ \A j \in DOMAIN trace : trace[j].ok
       /\ Len(ret.value) = Len(waveforms)
       /\ \A k \in DOMAIN waveforms :
            ret.value[k] = <<waveforms[k], "preprocess", "forward_model", "postprocess">>

\* a call over two different waveforms has returned
C5_Witness ==
  /\ pc = "ready"
  /\ ret.returned
  /\ Len(waveforms) = 2
  /\ waveforms[1] # waveforms[2]

\* C6: infer on an empty list returns an empty list and invokes no stage,
\* also on BaseInference itself, whose three stages are not implemented.
C6_EmptyInput ==
  (calls > 0 /\ waveforms = <<>>) =>
    /\ trace = <<>>
    /\ error = NoError
    /\ pc \in {"for", "ready"}
    /\ pc = "ready" => ret = [returned |-> TRUE, value |-> <<>>]

\* BaseInference.infer([]) has returned
C6_Witness ==
  /\ pc = "ready"
  /\ calls > 0
  /\ waveforms = <<>>
  /\ self.overrides = {}
  /\ ret.returned

\* C7: the constructor completes only if the keys of the extracted mapping are
\* exactly the keys the architecture declares; otherwise build_model fails
\* with the mismatch error naming the missing and unexpected keys, the object
\* never gets a model and no infer call starts on it.
C7_StrictLoad ==
  /\ [](/\ pc = "ctor_failed" => ("model" \notin DOMAIN self /\ calls = 0)
        /\ calls > 0 => "model" \in DOMAIN self
        /\ pc \in {"for", "preprocess", "forward_model", "postprocess"} =>
             "model" \in DOMAIN self)
  /\ [][/\ ("model" \notin DOMAIN self /\ "model" \in DOMAIN self') =>
             (DOMAIN state_dict = Declared /\ DOMAIN self'.model.params = Declared)
        /\ (pc = "load_state_dict" /\ DOMAIN state_dict # Declared) =>
             /\ pc' = "ctor_failed"
             /\ error' = KeyMismatch(Declared \ DOMAIN state_dict,
                                     DOMAIN state_dict \ Declared)
             /\ "model" \notin DOMAIN self']_vars

\* construction has failed on a mapping with a declared key missing and an
\* undeclared key present
C7_Witness ==
  /\ pc = "ctor_failed"
  /\ error.msg = "Error(s) in loading state_dict"
  /\ error.missing # {}
  /\ error.unexpected # {}

\* C8: timestep is hop_size / audio_sample_rate, set once by the constructor,
\* and no infer call, failing or not, changes config, model_path, device,
\* timestep or model.
C8_StateFixed ==
  /\ []("timestep" \in DOMAIN self =>
          /\ self.timestep[2] # 0
          /\ self.timestep[1] * self.config.audio_sample_rate
               = self.timestep[2] * self.config.hop_size)
  /\ [][/\ "timestep" \in DOMAIN self =>
             ("timestep" \in DOMAIN self' /\ self'.timestep = self.timestep)
        /\ "model" \in DOMAIN self => self' = self]_vars

\* a second infer call has failed on a pipeline built for 512 / 44100
C8_Witness ==
  /\ pc = "ready"
  /\ calls >= 2
  /\ error.type # "none"
  /\ self.config.hop_size = 512
  /\ self.timestep = <<128, 11025>>

ModelKeyNoDict ==
  /\ IsDict(ckpt)
  /\ "state_dict" \notin DOMAIN ckpt.entries
  /\ "model" \in DOMAIN ckpt.entries
  /\ ~ckpt.entries["model"].isMap

\* C10: a dict checkpoint without a 'state_dict' key whose 'model' entry is no
\* dict is not rejected as unsupported: it is taken as the raw shape, and the
\* whole top-level mapping, 'model' entry included, is what the strict load
\* is applied to.
C10_BadModelFallsToRaw ==
  /\ []((branch # "none" /\ ModelKeyNoDict) =>
          /\ branch = "raw"
          /\ error # UnsupportedFormat(self.model_path)
          /\ state_dict = ckpt.entries
          /\ "model" \in DOMAIN state_dict)
  /\ [][(pc = "load_state_dict" /\ ModelKeyNoDict) =>
          \/ /\ DOMAIN ckpt.entries = Declared
             /\ pc' = "ready"
             /\ self'.model.params = ckpt.entries
          \/ /\ DOMAIN ckpt.entries # Declared
             /\ pc' = "ctor_failed"
             /\ error' = KeyMismatch(Declared \ DOMAIN ckpt.entries,
                                     DOMAIN ckpt.entries \ Declared)]_vars

\* {'model': W, 'a': Y} is about to be loaded into an architecture declaring
\* the parameters 'model' and 'a'
C10_Witness ==
  /\ pc = "load_state_dict"
  /\ ModelKeyNoDict
  /\ branch = "raw"
  /\ DOMAIN state_dict = {"model", "a"}
  /\ Declared = {"model", "a"}
====
